---- MODULE Spec2Model ----
(***************************************************************************)
(* Model of src/src/App.js (and its annotated copy src/unnamed/part_000):  *)
(* the user-session reducer, the context accessor useUserContext, the      *)
(* provider's useReducer store and the components that subscribe to it.    *)
(*                                                                         *)
(* The store is the useReducer hook of UserProvider.  setUserState (the    *)
(* hook's dispatch) enqueues an action; the hook folds userReducer over    *)
(* the enqueued actions when the provider renders again, and the           *)
(* components under the provider then capture the new userState.  The      *)
(* handlers of ManageUser close over the userState of the render that      *)
(* created them.                                                           *)
(***************************************************************************)
EXTENDS Integers, Sequences, FiniteSets, TLC

(* ---------------------------- bounds ---------------------------------- *)

\* number of distinct strings a text input may carry (e.target.value)
NumStrings == 3
\* number of requests dispatched in one run
MaxDispatch == 4

AllStrings == <<"", "alice", "a@x.com", "bob", "b@y.org", "carol", "c@z.net">>

Min(a, b) == IF a < b THEN a ELSE b

Strings == { AllStrings[i] : i \in 1..Min(NumStrings, Len(AllStrings)) }

(* ---------------------------- the record ------------------------------ *)

Fields == {"isLoggedIn", "username", "email"}

initialUserState == [isLoggedIn |-> FALSE, username |-> "", email |-> ""]

\* every session record of the bounded value space
UserStates == [isLoggedIn : BOOLEAN, username : Strings, email : Strings]

(* ---------------------------- the reducer ----------------------------- *)

\* { ...state, [key]: val }: copy every field of state, then set key
Spread(state, key, val) ==
    [k \in (DOMAIN state) \cup {key} |-> IF k = key THEN val ELSE state[k]]

\* a reducer that forgets the spread in every arm
userReducerNoSpread(state, action) ==
    CASE action.type = "SET_LOGGEDIN" -> [isLoggedIn |-> action.payload]
      [] action.type = "SET_USERNAME" -> [username |-> action.payload]
      [] action.type = "SET_EMAIL"    -> [email |-> action.payload]
      [] OTHER                        -> state

\* a reducer whose SET_LOGGEDIN arm toggles instead of storing the payload
userReducerToggle(state, action) ==
    CASE action.type = "SET_LOGGEDIN" ->
             Spread(state, "isLoggedIn", ~state.isLoggedIn)
      [] action.type = "SET_USERNAME" ->
             Spread(state, "username", action.payload)
      [] action.type = "SET_EMAIL"    ->
             Spread(state, "email", action.payload)
      [] OTHER                        -> state

\* a reducer whose SET_USERNAME arm writes the email field
userReducerWrongField(state, action) ==
    CASE action.type = "SET_LOGGEDIN" ->
             Spread(state, "isLoggedIn", action.payload)
      [] action.type = "SET_USERNAME" ->
             Spread(state, "email", action.payload)
      [] action.type = "SET_EMAIL"    ->
             Spread(state, "email", action.payload)
      [] OTHER                        -> state

\* a reducer whose SET_EMAIL arm falls through to the default arm
userReducerEmailFallsThrough(state, action) ==
    CASE action.type = "SET_LOGGEDIN" ->
             Spread(state, "isLoggedIn", action.payload)
      [] action.type = "SET_USERNAME" ->
             Spread(state, "username", action.payload)
      [] OTHER                        -> state

\* a reducer whose SET_USERNAME arm copies the fields by hand and forgets email
userReducerDropsEmail(state, action) ==
    CASE action.type = "SET_LOGGEDIN" ->
             Spread(state, "isLoggedIn", action.payload)
      [] action.type = "SET_USERNAME" ->
             [isLoggedIn |-> state.isLoggedIn, username |-> action.payload]
      [] action.type = "SET_EMAIL"    ->
             Spread(state, "email", action.payload)
      [] OTHER                        -> state

\* a reducer whose default arm resets the record
userReducerDefaultResets(state, action) ==
    CASE action.type = "SET_LOGGEDIN" ->
             Spread(state, "isLoggedIn", action.payload)
      [] action.type = "SET_USERNAME" ->
             Spread(state, "username", action.payload)
      [] action.type = "SET_EMAIL"    ->
             Spread(state, "email", action.payload)
      [] OTHER                        -> initialUserState

userReducer(state, action) ==
    CASE action.type = "SET_LOGGEDIN" ->
             Spread(state, "isLoggedIn", action.payload)
      [] action.type = "SET_USERNAME" ->
             Spread(state, "username", action.payload)
      [] action.type = "SET_EMAIL"    ->
             Spread(state, "email", action.payload)
      [] OTHER                        -> state

\* the three request kinds the reducer recognises
KnownTypes == {"SET_LOGGEDIN", "SET_USERNAME", "SET_EMAIL"}

\* request kinds the switch has no case for (the match is case sensitive)
UnknownTypes == {"SET_PASSWORD", "set_username", "SET_", "RESET", ""}

KnownActions ==
    [type : {"SET_LOGGEDIN"}, payload : BOOLEAN]
        \cup [type : {"SET_USERNAME", "SET_EMAIL"}, payload : Strings]

UnknownActions ==
    [type : UnknownTypes, payload : BOOLEAN]
        \cup [type : UnknownTypes, payload : Strings]

Actions == KnownActions \cup UnknownActions

(* ---------------------------- the store ------------------------------- *)

Components == {"UserProfile", "ManageUser", "IsUserLoggedIn"}

\* names of the two text inputs of ManageUser
InputNames == {"USERNAME", "EMAIL"}

VARIABLES
    userState,   \* state of the useReducer hook as of the provider's last render
    queue,       \* actions passed to setUserState since that render
    view,        \* userState each component captured when it last rendered
    access,      \* outcome of the latest useUserContext call
    history,     \* every action passed to setUserState, in order
    fnState,     \* reducer under test: the record
    fnAction,    \* reducer under test: the request
    fnResult,    \* userReducer(fnState, fnAction)
    fnTwice,     \* userReducer(fnResult, fnAction)
    fnPc         \* "input", "once" or "twice"

storeVars == <<userState, queue, view, access, history>>
fnVars == <<fnState, fnAction, fnResult, fnTwice, fnPc>>
vars == <<userState, queue, view, access, history,
          fnState, fnAction, fnResult, fnTwice, fnPc>>

\* a queue processed newest action first
RECURSIVE ApplyQueueNewestFirst(_, _)
ApplyQueueNewestFirst(state, q) ==
    IF q = <<>> THEN state
    ELSE ApplyQueueNewestFirst(userReducer(state, q[Len(q)]),
                               SubSeq(q, 1, Len(q) - 1))

\* the hook's queue processing: fold the reducer over the pending actions
RECURSIVE ApplyQueue(_, _)
ApplyQueue(state, q) ==
    IF q = <<>> THEN state
    ELSE ApplyQueue(userReducer(state, Head(q)), Tail(q))

\* providerValue = { userState, setUserState }, built at each render
providerValue(state) ==
    [kind |-> "value", userState |-> state, setUserState |-> "dispatch"]

\* what useContext(UserContext) yields: the nearest provider's value, or the
\* default of createContext(), which is undefined
useContext(within, state) ==
    IF within THEN providerValue(state) ELSE [kind |-> "undefined"]

\* an accessor that tests context === null
useUserContextStrict(context) ==
    IF context.kind = "null"
    THEN [threw |-> TRUE, error |-> "userContext needs to be within a Provider"]
    ELSE [threw |-> FALSE, value |-> context]

\* context == null holds of both null and undefined
useUserContext(context) ==
    IF context.kind \in {"null", "undefined"}
    THEN [threw |-> TRUE, error |-> "userContext needs to be within a Provider"]
    ELSE [threw |-> FALSE, value |-> context]

\* no component has called useUserContext yet
NoAccess ==
    [called |-> FALSE, within |-> TRUE,
     result |-> [threw |-> FALSE, value |-> [kind |-> "none"]]]

Init ==
    /\ userState = initialUserState
    /\ queue = <<>>
    /\ view = [c \in Components |-> initialUserState]
    /\ access = NoAccess
    /\ history = <<>>
    /\ fnState = initialUserState
    /\ fnAction = [type |-> "", payload |-> ""]
    /\ fnResult = initialUserState
    /\ fnTwice = initialUserState
    /\ fnPc = "idle"

\* setUserState(action)
setUserState(action) ==
    /\ Len(history) < MaxDispatch
    /\ queue' = Append(queue, action)
    /\ history' = Append(history, action)
    /\ UNCHANGED <<userState, view, access>>
    /\ UNCHANGED fnVars

\* the request built by a handler that does not negate the flag
handleLoggedInActionNoNegation(captured) ==
    [type |-> "SET_LOGGEDIN", payload |-> captured.isLoggedIn]

\* the request handleLoggedIn builds from the userState it closed over
handleLoggedInAction(captured) ==
    [type |-> "SET_LOGGEDIN", payload |-> ~captured.isLoggedIn]

\* the request handleInputChange builds from the change event
handleInputChangeAction(name, value) ==
    [type |-> "SET_" \o name, payload |-> value]

\* onChange of one of the two inputs
handleInputChange ==
    \E name \in InputNames, value \in Strings :
        setUserState(handleInputChangeAction(name, value))

\* onClick of the log-in/log-out button
handleLoggedIn ==
    setUserState(handleLoggedInAction(view["ManageUser"]))

\* a render that processes only the first pending action
RenderedStateHeadOnly(state, q) == userReducer(state, Head(q))

\* the state useReducer returns at the next render
RenderedState(state, q) == ApplyQueue(state, q)

\* the provider renders again: the hook processes its queue, and every
\* component under the provider calls useUserContext() and captures the new
\* userState
Render ==
    /\ queue # <<>>
    /\ userState' = RenderedState(userState, queue)
    /\ queue' = <<>>
    /\ access' = [called |-> TRUE, within |-> TRUE,
                  result |-> useUserContext(useContext(TRUE, userState'))]
    /\ view' = [c \in Components |-> access'.result.value.userState]
    /\ UNCHANGED history
    /\ UNCHANGED fnVars

\* a component calls useUserContext(), under the provider or not
UseUserContextCall ==
    \E within \in BOOLEAN :
        /\ access' = [called |-> TRUE, within |-> within,
                      result |-> useUserContext(useContext(within, userState))]
        /\ UNCHANGED <<userState, queue, view, history>>
        /\ UNCHANGED fnVars

Next ==
    \/ handleInputChange
    \/ handleLoggedIn
    \/ Render
    \/ UseUserContextCall

Spec == Init /\ [][Next]_vars

(* ------------------- the reducer as a pure function ------------------- *)

FnInit ==
    /\ userState = initialUserState
    /\ queue = <<>>
    /\ view = [c \in Components |-> initialUserState]
    /\ access = NoAccess
    /\ history = <<>>
    /\ fnState \in UserStates
    /\ fnAction \in Actions
    /\ fnResult = fnState
    /\ fnTwice = fnState
    /\ fnPc = "input"

FnApply ==
    /\ fnPc = "input"
    /\ fnResult' = userReducer(fnState, fnAction)
    /\ fnPc' = "once"
    /\ UNCHANGED <<fnState, fnAction, fnTwice>>
    /\ UNCHANGED storeVars

FnApplyAgain ==
    /\ fnPc = "once"
    /\ fnTwice' = userReducer(fnResult, fnAction)
    /\ fnPc' = "twice"
    /\ UNCHANGED <<fnState, fnAction, fnResult>>
    /\ UNCHANGED storeVars

FnNext ==
    \/ FnApply
    \/ FnApplyAgain

SpecFn == FnInit /\ [][FnNext]_vars

(* ============================ properties ============================== *)

\* the reducer has produced fnResult from a request of kind t
Applied(t) == fnPc \in {"once", "twice"} /\ fnAction.type = t

\* C1: userReducer(s, SET_LOGGEDIN v) has isLoggedIn = v and the username
\* and email of s, for every record s and every v.
C1_SetLoggedIn ==
    Applied("SET_LOGGEDIN") =>
        /\ DOMAIN fnResult = DOMAIN fnState
        /\ fnResult.isLoggedIn = fnAction.payload
        /\ fnResult.username = fnState.username
        /\ fnResult.email = fnState.email

C1_Witness ==
    /\ Applied("SET_LOGGEDIN")
    /\ fnAction.payload = fnState.isLoggedIn
    /\ fnState.username # ""
    /\ fnState.email # ""

\* C2: userReducer(s, SET_USERNAME v) has username = v (the empty string
\* included) and the isLoggedIn and email of s.
C2_SetUsername ==
    Applied("SET_USERNAME") =>
        /\ DOMAIN fnResult = DOMAIN fnState
        /\ fnResult.username = fnAction.payload
        /\ fnResult.isLoggedIn = fnState.isLoggedIn
        /\ fnResult.email = fnState.email

C2_Witness ==
    /\ Applied("SET_USERNAME")
    /\ fnAction.payload = ""
    /\ fnState.username # ""
    /\ fnState.email # ""
    /\ fnState.isLoggedIn

\* C3: userReducer(s, SET_EMAIL v) has email = v (the empty string included)
\* and the isLoggedIn and username of s.
C3_SetEmail ==
    Applied("SET_EMAIL") =>
        /\ DOMAIN fnResult = DOMAIN fnState
        /\ fnResult.email = fnAction.payload
        /\ fnResult.isLoggedIn = fnState.isLoggedIn
        /\ fnResult.username = fnState.username

C3_Witness ==
    /\ Applied("SET_EMAIL")
    /\ fnAction.payload = ""
    /\ fnState.email # ""
    /\ fnState.username # ""
    /\ fnState.isLoggedIn

\* C4: for a request of any kind other than the three recognised ones,
\* userReducer returns the record it was given; and it yields a record for
\* every (record, request) pair.
C4_UnknownIsIdentity ==
    /\ (fnPc \in {"once", "twice"} /\ fnAction.type \notin KnownTypes)
           => fnResult = fnState
    /\ fnPc \in {"once", "twice"} => DOMAIN fnResult = Fields

C4_Witness ==
    /\ fnPc = "once"
    /\ fnAction.type = "set_username"
    /\ fnState # initialUserState
    /\ fnResult = fnState

\* C9: applying the same SET_LOGGEDIN, SET_USERNAME or SET_EMAIL request
\* twice gives the record that applying it once gives.
C9_Idempotent ==
    (fnPc = "twice" /\ fnAction.type \in KnownTypes) => fnTwice = fnResult

C9_Witness ==
    /\ fnPc = "twice"
    /\ fnAction.type = "SET_LOGGEDIN"
    /\ fnAction.payload # fnState.isLoggedIn
    /\ fnTwice = fnResult
    /\ fnResult # fnState

\* C5: useUserContext throws exactly when it is called outside a provider;
\* under the provider it never throws and returns {userState, setUserState}
\* with the provider's current userState; a call that throws leaves the
\* store's record, its pending requests and what the components see
\* unchanged.
C5_AccessFailsExactlyOutsideProvider ==
    /\ [](access.called =>
            /\ access.result.threw <=> ~access.within
            /\ access.within => access.result.value = providerValue(userState))
    /\ [][(access' # access /\ access'.result.threw) =>
              UNCHANGED <<userState, queue, view>>]_vars

C5_Witness ==
    /\ access.called
    /\ ~access.within
    /\ access.result.threw
    /\ userState # initialUserState
    /\ queue # <<>>

\* the record that results from requests h applied to the default record
Fold(h) == ApplyQueue(initialUserState, h)

\* C6 as stated: once a dispatch has returned, every observer sees the
\* record that results from all the requests dispatched so far.
C6_ObserversSeeEveryReturnedDispatch ==
    \A c \in Components : view[c] = Fold(history)

\* C6 amended: a dispatch only enqueues its request.  All observers see the
\* same record, the one that results from the requests dispatched before the
\* provider's latest render; the requests dispatched since are pending, in
\* order, and the next render applies all of them.
C6_ObserversSeeLastRender ==
    LET n == Len(history) - Len(queue) IN
        /\ n >= 0
        /\ queue = SubSeq(history, n + 1, Len(history))
        /\ userState = Fold(SubSeq(history, 1, n))
        /\ \A c \in Components : view[c] = userState

C6_Witness ==
    /\ Len(queue) >= 2
    /\ Len(history) > Len(queue)
    /\ userState # initialUserState
    /\ view["IsUserLoggedIn"] = userState
    /\ ApplyQueue(userState, queue) # userState

\* a record with exactly the three fields, each of its type
FullyPopulated(r) ==
    /\ DOMAIN r = Fields
    /\ r.isLoggedIn \in BOOLEAN
    /\ r.username \in Strings
    /\ r.email \in Strings

\* C7: the record of the store is fully populated in every reachable state:
\* as rendered, as seen by each component, and with the pending requests
\* applied.
C7_FullyPopulated ==
    /\ FullyPopulated(userState)
    /\ FullyPopulated(ApplyQueue(userState, queue))
    /\ \A c \in Components : FullyPopulated(view[c])

C7_Witness ==
    /\ userState.isLoggedIn
    /\ userState.username # ""
    /\ userState.email # ""
    /\ queue # <<>>
    /\ ApplyQueue(userState, queue).username # userState.username

Max(S) == CHOOSE m \in S : \A k \in S : k <= m

\* payload of the latest request of kind t in h, or d when h has none
LastPayload(h, t, d) ==
    LET I == { i \in 1..Len(h) : h[i].type = t } IN
        IF I = {} THEN d ELSE h[Max(I)].payload

IsClick(a) == a.type = "SET_LOGGEDIN"

NumClicks(h) == Cardinality({ i \in 1..Len(h) : IsClick(h[i]) })

\* C10 as stated: after n clicks the flag is true exactly when n is odd,
\* also when clicks were issued before ManageUser rendered again.
C10_EveryClickFlips ==
    queue = <<>> => (userState.isLoggedIn <=> NumClicks(history) % 2 = 1)

\* C10 amended: a click requests the negation of the flag ManageUser
\* captured at its latest render.  So the clicks issued between two renders
\* flip the rendered flag once, however many they are, and they leave
\* username and email as the edits alone make them.
C10_ClickNegatesRenderedFlag ==
    LET after == ApplyQueue(userState, queue)
        edits == SelectSeq(queue, LAMBDA a : ~IsClick(a))
    IN  /\ \A i \in 1..Len(queue) :
               IsClick(queue[i]) => queue[i].payload = ~userState.isLoggedIn
        /\ after.isLoggedIn =
               (IF NumClicks(queue) > 0 THEN ~userState.isLoggedIn
                                        ELSE userState.isLoggedIn)
        /\ after.username = ApplyQueue(userState, edits).username
        /\ after.email = ApplyQueue(userState, edits).email

C10_Witness ==
    /\ NumClicks(queue) >= 2
    /\ NumClicks(queue) < Len(queue)
    /\ userState.isLoggedIn
    /\ ~ApplyQueue(userState, queue).isLoggedIn

====
